---- MODULE Spec2Model ----
(***************************************************************************)
(* ProjectHub: the authentication library (lib/auth), the auth routes      *)
(* (register, login, logout, me) and the project routes, against the       *)
(* datastore schema the repository documents.                              *)
(*                                                                         *)
(* Time is counted in days (the unit of the token lifetime '7d').  The     *)
(* datastore answers every call (no transport failure); its constraint     *)
(* violations and "no rows" answers are modelled.  bcrypt reads the first   *)
(* 72 bytes of a password.                                                 *)
(***************************************************************************)
EXTENDS Integers, Sequences, FiniteSets, TLC

VARIABLES
  env,       \* process.env: JWT_SECRET and NODE_ENV, fixed at process start
  now,       \* the clock, in days
  users,     \* datastore table users: a set of rows
  nextUser,  \* how many user ids uuid_generate_v4() has handed out
  projects,  \* datastore table projects: a set of rows
  nextProject, \* how many project ids uuid_generate_v4() has handed out
  jar,       \* the browser's cookie named token (one browser is followed)
  pending,   \* register requests between their existence check and their insert
  given,     \* for each user id, the plaintext its registration was sent with
  creator,   \* for each project id handed out, the userId of the claim of
             \* the request that created it
  since,     \* what was answered since the jar's token was issued, the jar kept:
             \* "logout" (a logout carrying it), "login" (a later login)
  last,      \* the request that has just been answered: input, response, call log
  dashboard, \* the state of the Dashboard component (its useState hooks), and
             \* whether the page is still the dashboard
  modal,     \* the state of the ProjectModal component
  browser    \* the page's timers and the fetches it is waiting for

vars ==
  <<env, now, users, nextUser, projects, nextProject, jar, pending, given,
    creator, since, last, dashboard, modal, browser>>
server ==
  <<env, now, users, nextUser, projects, nextProject, jar, pending, given,
    creator, since, last>>
page == <<dashboard, modal, browser>>

\* ---------------------------------------------------------------- bounds
MaxTime == 8
MaxAccounts == 1
MaxUsers == 2
MaxProjects == 1
MaxPending == 2
MaxListTime == 1
MaxChanges == 3
MaxSaves == 1

\* ------------------------------------------------------------ vocabulary
Undefined == [undefined |-> TRUE]
Null == [null |-> TRUE]
Raise(name, message) == [throw |-> name, message |-> message]
IsRaise(v) == "throw" \in DOMAIN v

Emails == {"alice@example.com", "bob@example.com"}
Passwords == {"secret123", "wrongpass"}
Salts == {"salt1", "salt2"}
UUID(n) == [uuid |-> n]

\* ------------------------------------------------- lib/auth: credentials
\* two passwords of 73 characters that differ in the last one
LongPassword ==
  "correct-horse-battery-staple-correct-horse-battery-staple-correct-horse-A"
LongTwin ==
  "correct-horse-battery-staple-correct-horse-battery-staple-correct-horse-B"

\* the bytes of the password that bcrypt's key schedule reads
BcryptKey(password) ==
  IF password \in {LongPassword, LongTwin}
    THEN "correct-horse-battery-staple-correct-horse-battery-staple-correct-horse-"
    ELSE password

BcryptDigest(password, salt, cost) == <<BcryptKey(password), salt, cost>>

bcrypt_hash(password, cost, salt) ==
  [alg |-> "2a", cost |-> cost, salt |-> salt,
   digest |-> BcryptDigest(password, salt, cost)]

bcrypt_compare(password, hash) ==
  hash.digest = BcryptDigest(password, hash.salt, hash.cost)

BcryptCost == 10

hashPassword(password, salt) == bcrypt_hash(password, BcryptCost, salt)

verifyPassword(password, hash) == bcrypt_compare(password, hash)

\* ------------------------------------------------------ lib/auth: tokens
FallbackSecret == "your-super-secret-jwt-key-change-in-production"
OtherSecret == "another-secret"

\* process.env.JWT_SECRET || fallback: unset and empty are both falsy
Unset == ""
JWT_SECRET ==
  IF env.JWT_SECRET = Unset THEN FallbackSecret ELSE env.JWT_SECRET

ExpiresInDays == 7

HMAC(secret, payload) == [key |-> secret, msg |-> payload]

jwt_sign(payload, secret, expiresIn, t) ==
  LET p == [userId |-> payload.userId, email |-> payload.email,
            iat |-> t, exp |-> t + expiresIn]
  IN  [kind |-> "jwt", payload |-> p, sig |-> HMAC(secret, p)]

\* jwt.verify that still accepts a token at the instant it expires
jwt_verify_inclusive(token, secret, t) ==
  IF token.kind # "jwt"
    THEN Raise("JsonWebTokenError", "jwt malformed")
  ELSE IF token.sig # HMAC(secret, token.payload)
    THEN Raise("JsonWebTokenError", "invalid signature")
  ELSE IF t > token.payload.exp
    THEN Raise("TokenExpiredError", "jwt expired")
  ELSE token.payload

jwt_verify(token, secret, t) ==
  IF token.kind # "jwt"
    THEN Raise("JsonWebTokenError", "jwt malformed")
  ELSE IF token.sig # HMAC(secret, token.payload)
    THEN Raise("JsonWebTokenError", "invalid signature")
  ELSE IF t >= token.payload.exp
    THEN Raise("TokenExpiredError", "jwt expired")
  ELSE token.payload

\* generateToken that signs the user id alone
generateToken_noEmail(payload, t) ==
  jwt_sign([userId |-> payload.userId, email |-> ""], JWT_SECRET,
           ExpiresInDays, t)

\* generateToken with expiresIn: '1d'
generateToken_1d(payload, t) == jwt_sign(payload, JWT_SECRET, 1, t)

generateToken(payload, t) == jwt_sign(payload, JWT_SECRET, ExpiresInDays, t)

\* verifyToken without its try/catch
verifyToken_noCatch(token, t) == jwt_verify(token, JWT_SECRET, t)

verifyToken(token, t) ==
  LET r == jwt_verify(token, JWT_SECRET, t)
  IN  IF IsRaise(r) THEN Null ELSE r

\* The values a token cookie can hold that no server issued.
NoCookie == [kind |-> "absent"]
EmptyCookie == [kind |-> "string", text |-> ""]
MalformedCookie == [kind |-> "string", text |-> "not.a.jwt"]

\* !token: the cookie is absent or the empty string
Falsy(token) == token = NoCookie \/ token = EmptyCookie

\* getCurrentUser that also wants the user's row to exist
getCurrentUser_lookup(request, t) ==
  LET token == request.cookie
      claim == verifyToken(token, t)
  IN  IF Falsy(token) THEN [val |-> Null, log |-> <<>>]
      ELSE IF claim = Null THEN [val |-> Null, log |-> <<"verifyToken">>]
      ELSE IF \E u \in users : u.id = claim.userId
        THEN [val |-> claim, log |-> <<"verifyToken", "select users">>]
      ELSE [val |-> Null, log |-> <<"verifyToken", "select users">>]

\* getCurrentUser over a session table that a logout clears
getCurrentUser_session(request, t) ==
  LET token == request.cookie
  IN  IF Falsy(token) THEN [val |-> Null, log |-> <<>>]
      ELSE IF token = jar /\ "logout" \in since
        THEN [val |-> Null, log |-> <<"verifyToken">>]
      ELSE [val |-> verifyToken(token, t), log |-> <<"verifyToken">>]

\* getCurrentUser that hands the verifier whatever the cookie holds
getCurrentUser_alwaysVerifies(request, t) ==
  [val |-> verifyToken(request.cookie, t), log |-> <<"verifyToken">>]

\* [val, log]: the value returned and the calls made, in order
getCurrentUser(request, t) ==
  LET token == request.cookie
  IN  IF Falsy(token)
        THEN [val |-> Null, log |-> <<>>]
        ELSE [val |-> verifyToken(token, t), log |-> <<"verifyToken">>]

\* requireAuth that returns what getCurrentUser returned, null included
requireAuth_noThrow(request, t) == getCurrentUser(request, t)

\* requireAuth whose error says what was wrong with the cookie
requireAuth_tellsWhy(request, t) ==
  LET user == getCurrentUser(request, t)
  IN  IF IsRaise(user.val) THEN user
      ELSE IF user.val = Null
        THEN [val |-> Raise("Error", IF Falsy(request.cookie)
                                       THEN "No token" ELSE "Invalid token"),
              log |-> user.log]
      ELSE user

requireAuth(request, t) ==
  LET user == getCurrentUser(request, t)
  IN  IF IsRaise(user.val) THEN user
      ELSE IF user.val = Null
        THEN [val |-> Raise("Error", "Unauthorized"), log |-> user.log]
      ELSE user

\* ----------------------------------------------------- datastore: users
\* CREATE TABLE users: id UUID PRIMARY KEY, email UNIQUE NOT NULL,
\* password_hash NOT NULL, name NOT NULL
PGRST116 == [code |-> "PGRST116"]
UniqueViolation == [code |-> "23505"]

UsersByEmail(email) == {u \in users : u.email = email}

\* the select of login without its .eq('email', email)
users_select_single_noFilter(email) ==
  IF Cardinality(users) >= 1
    THEN [data |-> CHOOSE u \in users : TRUE, error |-> Null]
    ELSE [data |-> Null, error |-> PGRST116]

\* .select(..).eq('email', email).single(): exactly one row, or an error
users_select_single(email) ==
  LET rows == UsersByEmail(email)
  IN  IF Cardinality(rows) = 1
        THEN [data |-> CHOOSE u \in rows : TRUE, error |-> Null]
        ELSE [data |-> Null, error |-> PGRST116]

\* .select('id').eq('email', email).maybeSingle(): no row is not an error
users_select_maybeSingle(email) ==
  LET rows == UsersByEmail(email)
  IN  IF rows = {} THEN [data |-> Null, error |-> Null]
      ELSE IF Cardinality(rows) = 1
        THEN [data |-> [id |-> (CHOOSE u \in rows : TRUE).id], error |-> Null]
      ELSE [data |-> Null, error |-> PGRST116]

\* the insert into a users table whose email column is not UNIQUE
users_insert_noUnique(email, password_hash, name) ==
  LET row == [id |-> UUID(nextUser + 1), email |-> email,
              password_hash |-> password_hash, name |-> name]
  IN  [data |-> [id |-> row.id, email |-> row.email, name |-> row.name],
       error |-> Null, table |-> users \cup {row}]

\* .insert({email, password_hash, name}).select('id, email, name').single()
users_insert(email, password_hash, name) ==
  IF UsersByEmail(email) # {}
    THEN [data |-> Null, error |-> UniqueViolation, table |-> users]
    ELSE LET row == [id |-> UUID(nextUser + 1), email |-> email,
                     password_hash |-> password_hash, name |-> name]
         IN  [data |-> [id |-> row.id, email |-> row.email, name |-> row.name],
              error |-> Null, table |-> users \cup {row}]

\* ------------------------------------------------------ requests, replies
NotJson == [notjson |-> TRUE]

NoSetCookie == [set |-> "nothing"]
DeleteCookie(name) == [set |-> "delete", name |-> name]
MaxAge == 60 * 60 * 24 * 7

\* the cookie with secure: true whatever NODE_ENV is
AuthCookie_alwaysSecure(token) ==
  [set |-> "cookie", name |-> "token", value |-> token, httpOnly |-> TRUE,
   secure |-> TRUE, sameSite |-> "lax", maxAge |-> MaxAge]

AuthCookie(token) ==
  [set |-> "cookie", name |-> "token", value |-> token, httpOnly |-> TRUE,
   secure |-> (env.NODE_ENV = "production"), sameSite |-> "lax",
   maxAge |-> MaxAge]

Json(status, body) == [status |-> status, body |-> body, cookie |-> NoSetCookie]
WithCookie(response, cookie) == [response EXCEPT !.cookie = cookie]

InternalServerError == Json(500, [error |-> "Internal server error"])
InvalidInput(error) ==
  Json(400, [error |-> "Invalid input", details |-> error.message])
Unauthorized == Json(401, [error |-> "Unauthorized"])

\* zod: z.string().email(), z.string().min(n), on the strings the model sends
IsEmail(s) == s \in Emails
StrLen(s) ==
  CASE s = "" -> 0
    [] s = "abc" -> 3
    [] s = "Alice" -> 5
    [] s = "Website" -> 7
    [] s = "John Doe" -> 8
    [] s \in Passwords -> 9
    [] s \in {LongPassword, LongTwin} -> 73
    [] OTHER -> 12

IsObject(body) == body # NotJson

loginSchema(body) ==
  IF /\ {"email", "password"} \subseteq DOMAIN body
     /\ IsEmail(body.email)
     /\ StrLen(body.password) >= 1
    THEN [email |-> body.email, password |-> body.password]
    ELSE Raise("ZodError", "invalid")

registerSchema(body) ==
  IF /\ {"email", "password", "name"} \subseteq DOMAIN body
     /\ IsEmail(body.email)
     /\ StrLen(body.password) >= 6
     /\ StrLen(body.name) >= 1
    THEN [email |-> body.email, password |-> body.password, name |-> body.name]
    ELSE Raise("ZodError", "invalid")

\* the catch block of login and register
AuthCatch(error) ==
  IF error.throw = "ZodError" THEN InvalidInput(error) ELSE InternalServerError

\* ----------------------------------------------------- POST /api/auth/login
\* the two returns of a failed login: no such user, wrong password
LoginNoUser == Json(401, [error |-> "Invalid credentials"])
LoginBadPassword == Json(401, [error |-> "Invalid credentials"])

\* login that answers with the row as the datastore returned it
LoginPOST_wholeRow(request, t) ==
  IF ~IsObject(request.body)
    THEN [resp |-> AuthCatch(Raise("SyntaxError", "json")), log |-> <<>>]
  ELSE LET parsed == loginSchema(request.body) IN
  IF IsRaise(parsed) THEN [resp |-> AuthCatch(parsed), log |-> <<>>]
  ELSE LET q == users_select_single(parsed.email)
           user == q.data
       IN
  IF q.error # Null \/ user = Null
    THEN [resp |-> LoginNoUser, log |-> <<"select users">>]
  ELSE IF ~verifyPassword(parsed.password, user.password_hash)
    THEN [resp |-> LoginBadPassword,
          log |-> <<"select users", "verifyPassword">>]
  ELSE LET token == generateToken([userId |-> user.id, email |-> user.email], t)
       IN  [resp |-> WithCookie(Json(200, [user |-> user, token |-> token]),
                                AuthCookie(token)),
            log |-> <<"select users", "verifyPassword", "generateToken">>]

\* login that issues the token without comparing the password
LoginPOST_noVerify(request, t) ==
  IF ~IsObject(request.body)
    THEN [resp |-> AuthCatch(Raise("SyntaxError", "json")), log |-> <<>>]
  ELSE LET parsed == loginSchema(request.body) IN
  IF IsRaise(parsed) THEN [resp |-> AuthCatch(parsed), log |-> <<>>]
  ELSE LET q == users_select_single(parsed.email)
           user == q.data
       IN
  IF q.error # Null \/ user = Null
    THEN [resp |-> LoginNoUser, log |-> <<"select users">>]
  ELSE LET token == generateToken([userId |-> user.id, email |-> user.email], t)
       IN  [resp |-> WithCookie(
                       Json(200, [user |-> [id |-> user.id, email |-> user.email,
                                            name |-> user.name],
                                  token |-> token]),
                       AuthCookie(token)),
            log |-> <<"select users", "verifyPassword", "generateToken">>]

\* [resp, log]: the response and the calls made, in order
LoginPOST(request, t) ==
  IF ~IsObject(request.body)
    THEN [resp |-> AuthCatch(Raise("SyntaxError", "json")), log |-> <<>>]
  ELSE LET parsed == loginSchema(request.body) IN
  IF IsRaise(parsed) THEN [resp |-> AuthCatch(parsed), log |-> <<>>]
  ELSE LET q == users_select_single(parsed.email)
           user == q.data
       IN
  IF q.error # Null \/ user = Null
    THEN [resp |-> LoginNoUser, log |-> <<"select users">>]
  ELSE IF ~verifyPassword(parsed.password, user.password_hash)
    THEN [resp |-> LoginBadPassword,
          log |-> <<"select users", "verifyPassword">>]
  ELSE LET token == generateToken([userId |-> user.id, email |-> user.email], t)
       IN  [resp |-> WithCookie(
                       Json(200, [user |-> [id |-> user.id, email |-> user.email,
                                            name |-> user.name],
                                  token |-> token]),
                       AuthCookie(token)),
            log |-> <<"select users", "verifyPassword", "generateToken">>]

\* -------------------------------------------------- POST /api/auth/register
\* up to the existence check: [resp, log, go]; go = the insert is still to come
RegisterCheck(request) ==
  IF ~IsObject(request.body)
    THEN [resp |-> AuthCatch(Raise("SyntaxError", "json")), log |-> <<>>,
          go |-> FALSE]
  ELSE LET parsed == registerSchema(request.body) IN
  IF IsRaise(parsed)
    THEN [resp |-> AuthCatch(parsed), log |-> <<>>, go |-> FALSE]
  ELSE LET q == users_select_maybeSingle(parsed.email) IN
  IF q.error # Null /\ q.error.code # "PGRST116"
    THEN [resp |-> InternalServerError, log |-> <<"select users">>, go |-> FALSE]
  ELSE IF q.data # Null
    THEN [resp |-> Json(400, [error |-> "User already exists"]),
          log |-> <<"select users">>, go |-> FALSE]
  ELSE [resp |-> Null, log |-> <<"select users">>, go |-> TRUE]

\* from hashPassword to the response: [resp, log, table]
RegisterInsert(request, salt, t) ==
  LET parsed == registerSchema(request.body)
      passwordHash == hashPassword(parsed.password, salt)
      q == users_insert(parsed.email, passwordHash, parsed.name)
      user == q.data
  IN  IF q.error # Null \/ user = Null
        THEN [resp |-> InternalServerError,
              log |-> <<"select users", "hashPassword", "insert users">>,
              table |-> q.table]
        ELSE LET token == generateToken([userId |-> user.id, email |-> user.email], t)
             IN  [resp |-> WithCookie(
                             Json(200, [user |-> [id |-> user.id,
                                                  email |-> user.email,
                                                  name |-> user.name],
                                        token |-> token]),
                             AuthCookie(token)),
                  log |-> <<"select users", "hashPassword", "insert users",
                            "generateToken">>,
                  table |-> q.table]

\* ---------------------------------------------------- POST /api/auth/logout
\* logout behind the authorization gate
LogoutPOST_requiresAuth(request) ==
  IF IsRaise(requireAuth(request, now).val)
    THEN [resp |-> Unauthorized, log |-> <<"requireAuth">>]
    ELSE [resp |-> WithCookie(Json(200, [message |-> "Logged out successfully"]),
                              DeleteCookie("token")),
          log |-> <<"requireAuth">>]

LogoutPOST(request) ==
  [resp |-> WithCookie(Json(200, [message |-> "Logged out successfully"]),
                       DeleteCookie("token")),
   log |-> <<>>]

\* --------------------------------------------------------- GET /api/auth/me
MeGET(request, t) ==
  LET user == getCurrentUser(request, t)
  IN  IF IsRaise(user.val) THEN [resp |-> Unauthorized, log |-> user.log]
      ELSE IF user.val = Null THEN [resp |-> Unauthorized, log |-> user.log]
      ELSE [resp |-> Json(200, [user |-> user.val]), log |-> user.log]


\* --------------------------------------------------- datastore: projects
\* CREATE TABLE projects: id UUID PRIMARY KEY, title NOT NULL,
\* status NOT NULL CHECK (status IN (...)); the other columns are nullable.
\* A row is a record over the columns that are not NULL.
Statuses == {"active", "on hold", "completed"}
NotNullViolation == [code |-> "23502"]
CheckViolation == [code |-> "23514"]
InvalidTextRepresentation == [code |-> "22P02"]

Num(n) == [num |-> n]
NaN == [nan |-> TRUE]
IsUuid(v) == "uuid" \in DOMAIN v

\* the columns an insert or update sets: those given and not undefined/null
Given(values, column) == column \in DOMAIN values

projects_insert(values, t) ==
  IF ~Given(values, "title") \/ ~Given(values, "status")
    THEN [data |-> Null, error |-> NotNullViolation, table |-> projects]
  ELSE IF values.status \notin Statuses
    THEN [data |-> Null, error |-> CheckViolation, table |-> projects]
  ELSE LET row == [c \in DOMAIN values \cup {"id", "created_at", "updated_at"} |->
                     IF c = "id" THEN UUID(nextProject + 1)
                     ELSE IF c \in {"created_at", "updated_at"} THEN t
                     ELSE values[c]]
       IN  [data |-> row, error |-> Null, table |-> projects \cup {row}]

\* .eq('id', id): comparing the uuid column with a value that is no uuid
\* is an error of the datastore
projects_select_single(id) ==
  IF ~IsUuid(id)
    THEN [data |-> Null, error |-> InvalidTextRepresentation]
  ELSE LET rows == {p \in projects : p.id = id}
       IN  IF Cardinality(rows) = 1
             THEN [data |-> CHOOSE p \in rows : TRUE, error |-> Null]
             ELSE [data |-> Null, error |-> PGRST116]

projects_update_single(id, values) ==
  IF ~IsUuid(id)
    THEN [data |-> Null, error |-> InvalidTextRepresentation, table |-> projects]
  ELSE IF Given(values, "status") /\ values.status \notin Statuses
    THEN [data |-> Null, error |-> CheckViolation, table |-> projects]
  ELSE LET rows == {p \in projects : p.id = id}
           new(p) == [c \in DOMAIN p \cup DOMAIN values |->
                        IF c \in DOMAIN values THEN values[c] ELSE p[c]]
       IN  IF Cardinality(rows) = 1
             THEN LET p == CHOOSE q \in rows : TRUE
                  IN  [data |-> new(p), error |-> Null,
                       table |-> (projects \ {p}) \cup {new(p)}]
             ELSE [data |-> Null, error |-> PGRST116, table |-> projects]

\* .delete().eq('id', id).select('id').maybeSingle()
projects_delete_maybeSingle(id) ==
  IF ~IsUuid(id)
    THEN [data |-> Null, error |-> InvalidTextRepresentation, table |-> projects]
  ELSE LET rows == {p \in projects : p.id = id}
       IN  IF rows = {}
             THEN [data |-> Null, error |-> Null, table |-> projects]
             ELSE [data |-> [id |-> id], error |-> Null,
                   table |-> projects \ rows]

\* ILIKE '%search%' on the strings the model stores and searches for
Lower(s) ==
  CASE s = "Website" -> "website"
    [] s = "John Doe" -> "john doe"
    [] s = "WEB" -> "web"
    [] OTHER -> s
Substrings(s) ==
  CASE s = "website" -> {"web", "site", "website"}
    [] s = "john doe" -> {"john", "doe", "john doe"}
    [] s = "project description" -> {"project", "description"}
    [] OTHER -> {s}
\* `title.ilike.%${search}%`: the search text is put into the pattern as it
\* is, so an underscore in it stands for any one character
AnyOneChar == "_"
ILike(text, search) ==
  IF search = AnyOneChar THEN StrLen(text) >= 1
  ELSE Lower(search) \in Substrings(Lower(text))

\* .order('created_at', {ascending: false}): the sequences the datastore may
\* read the table in; rows of the same created_at come in any order
RECURSIVE Orders(_)
Orders(rows) ==
  IF rows = {} THEN {<<>>}
  ELSE UNION {{<<p>> \o rest : rest \in Orders(rows \ {p})} :
                p \in {q \in rows : \A r \in rows : q.created_at >= r.created_at}}

\* the rows .match({status}) and .or(title.ilike..,assigned_to.ilike..,
\* description.ilike..) keep, in the order read; a NULL column matches nothing
Matches(p, status, search) ==
  /\ status # "" => p.status = status
  /\ search # "" =>
       \E c \in {"title", "assigned_to", "description"} :
         c \in DOMAIN p /\ ILike(p[c], search)

projects_select(status, search, order) ==
  LET keep(p) == Matches(p, status, search) IN SelectSeq(order, keep)

\* ------------------------------------------------------ the project routes
Dates == {"2024-12-31"}
ProjectFields ==
  {"title", "status", "deadline", "assigned_to", "budget", "description"}

\* every field is .optional(); a field that is present must be valid
projectSchema(body) ==
  IF /\ Given(body, "title") => StrLen(body.title) >= 1
     /\ Given(body, "status") => body.status \in Statuses
     /\ Given(body, "deadline") => body.deadline \in Dates
     /\ Given(body, "assigned_to") => StrLen(body.assigned_to) >= 1
     /\ Given(body, "budget") => body.budget > 0
    THEN [c \in DOMAIN body \cap ProjectFields |-> body[c]]
    ELSE Raise("ZodError", "invalid")

\* Number(null) is 0: a NULL budget is answered as 0; the other NULL columns
\* are answered as null (left out here)
formatProject(project) ==
  [c \in DOMAIN project \cup {"budget"} |->
     IF c = "budget" /\ c \notin DOMAIN project THEN 0 ELSE project[c]]

\* Number(params.id) on the path segments the model sends
DigitsId(n) == [path |-> "digits", n |-> n]
UuidId(n) == [path |-> "uuid", n |-> n]
Number(id) == IF id.path = "digits" THEN Num(id.n) ELSE NaN

\* the catch block of the project routes
ProjectCatch(error) ==
  IF error.message = "Unauthorized" THEN Unauthorized
  ELSE IF error.throw = "ZodError" THEN InvalidInput(error)
  ELSE InternalServerError

\* GET /api/projects; order: the order the datastore answers in
ProjectsGET(request, order, t) ==
  LET auth == requireAuth(request, t)
      authLog == <<"requireAuth">> \o auth.log
  IN
  IF IsRaise(auth.val)
    THEN [resp |-> ProjectCatch(auth.val), log |-> authLog, table |-> projects]
  ELSE LET status == IF Given(request.query, "status")
                       THEN request.query.status ELSE ""
           search == IF Given(request.query, "search")
                       THEN request.query.search ELSE ""
           rows == projects_select(status, search, order)
       IN  [resp |-> Json(200, [list |-> [i \in 1..Len(rows) |->
                                            formatProject(rows[i])]]),
            log |-> authLog \o <<"select projects">>,
            table |-> projects]

\* POST /api/projects
ProjectsPOST(request, t) ==
  LET auth == requireAuth(request, t)
      authLog == <<"requireAuth">> \o auth.log
  IN
  IF IsRaise(auth.val)
    THEN [resp |-> ProjectCatch(auth.val), log |-> authLog, table |-> projects]
  ELSE IF ~IsObject(request.body)
    THEN [resp |-> ProjectCatch(Raise("SyntaxError", "json")), log |-> authLog,
          table |-> projects]
  ELSE LET data == projectSchema(request.body) IN
  IF IsRaise(data)
    THEN [resp |-> ProjectCatch(data), log |-> authLog, table |-> projects]
  ELSE LET values == [c \in {d \in DOMAIN data :
                               d = "description" => data[d] # ""} |-> data[c]]
           q == projects_insert(values, t)
       IN  IF q.error # Null
             THEN [resp |-> InternalServerError,
                   log |-> authLog \o <<"insert projects">>, table |-> q.table]
             ELSE [resp |-> Json(201, formatProject(q.data)),
                   log |-> authLog \o <<"insert projects">>, table |-> q.table]

\* GET /api/projects/[id]
ProjectGET(request, t) ==
  LET auth == requireAuth(request, t)
      authLog == <<"requireAuth">> \o auth.log
  IN
  IF IsRaise(auth.val)
    THEN [resp |-> ProjectCatch(auth.val), log |-> authLog, table |-> projects]
  ELSE LET id == Number(request.id) IN
  IF id = NaN
    THEN [resp |-> Json(400, [error |-> "Invalid project id"]), log |-> authLog,
          table |-> projects]
  ELSE LET q == projects_select_single(id) IN
  IF q.error # Null
    THEN [resp |-> IF q.error.code = "PGRST116"
                     THEN Json(404, [error |-> "Project not found"])
                     ELSE InternalServerError,
          log |-> authLog \o <<"select projects">>, table |-> projects]
    ELSE [resp |-> Json(200, formatProject(q.data)),
          log |-> authLog \o <<"select projects">>, table |-> projects]

\* the handler with the body parsed before the id is looked at
ProjectPUT_schemaFirst(request, t) ==
  LET auth == requireAuth(request, t)
      authLog == <<"requireAuth">> \o auth.log
  IN
  IF IsRaise(auth.val)
    THEN [resp |-> ProjectCatch(auth.val), log |-> authLog, table |-> projects]
  ELSE IF ~IsObject(request.body)
    THEN [resp |-> ProjectCatch(Raise("SyntaxError", "json")), log |-> authLog,
          table |-> projects]
  ELSE LET data == projectSchema(request.body) IN
  IF IsRaise(data)
    THEN [resp |-> ProjectCatch(data), log |-> authLog, table |-> projects]
  ELSE LET id == Number(request.id) IN
  IF id = NaN
    THEN [resp |-> Json(400, [error |-> "Invalid project id"]), log |-> authLog,
          table |-> projects]
  ELSE IF DOMAIN data = {}
    THEN [resp |-> Json(400, [error |-> "No fields to update"]),
          log |-> authLog, table |-> projects]
  ELSE LET q == projects_update_single(id, data) IN
  IF q.error # Null
    THEN [resp |-> IF q.error.code = "PGRST116"
                     THEN Json(404, [error |-> "Project not found"])
                     ELSE InternalServerError,
          log |-> authLog \o <<"update projects">>, table |-> q.table]
    ELSE [resp |-> Json(200, formatProject(q.data)),
          log |-> authLog \o <<"update projects">>, table |-> q.table]

\* PUT /api/projects/[id]
ProjectPUT(request, t) ==
  LET auth == requireAuth(request, t)
      authLog == <<"requireAuth">> \o auth.log
  IN
  IF IsRaise(auth.val)
    THEN [resp |-> ProjectCatch(auth.val), log |-> authLog, table |-> projects]
  ELSE LET id == Number(request.id) IN
  IF id = NaN
    THEN [resp |-> Json(400, [error |-> "Invalid project id"]), log |-> authLog,
          table |-> projects]
  ELSE IF ~IsObject(request.body)
    THEN [resp |-> ProjectCatch(Raise("SyntaxError", "json")), log |-> authLog,
          table |-> projects]
  ELSE LET data == projectSchema(request.body) IN
  IF IsRaise(data)
    THEN [resp |-> ProjectCatch(data), log |-> authLog, table |-> projects]
  ELSE IF DOMAIN data = {}
    THEN [resp |-> Json(400, [error |-> "No fields to update"]),
          log |-> authLog, table |-> projects]
  ELSE LET q == projects_update_single(id, data) IN
  IF q.error # Null
    THEN [resp |-> IF q.error.code = "PGRST116"
                     THEN Json(404, [error |-> "Project not found"])
                     ELSE InternalServerError,
          log |-> authLog \o <<"update projects">>, table |-> q.table]
    ELSE [resp |-> Json(200, formatProject(q.data)),
          log |-> authLog \o <<"update projects">>, table |-> q.table]

\* DELETE /api/projects/[id]
ProjectDELETE(request, t) ==
  LET auth == requireAuth(request, t)
      authLog == <<"requireAuth">> \o auth.log
  IN
  IF IsRaise(auth.val)
    THEN [resp |-> ProjectCatch(auth.val), log |-> authLog, table |-> projects]
  ELSE LET id == Number(request.id) IN
  IF id = NaN
    THEN [resp |-> Json(400, [error |-> "Invalid project id"]), log |-> authLog,
          table |-> projects]
  ELSE LET q == projects_delete_maybeSingle(id) IN
  IF q.error # Null
    THEN [resp |-> InternalServerError,
          log |-> authLog \o <<"delete projects">>, table |-> q.table]
  ELSE IF q.data = Null
    THEN [resp |-> Json(404, [error |-> "Project not found"]),
          log |-> authLog \o <<"delete projects">>, table |-> q.table]
  ELSE [resp |-> Json(200, [message |-> "Project deleted successfully"]),
        log |-> authLog \o <<"delete projects">>, table |-> q.table]

\* ------------------------------------------------------------- the clients
\* a token re-signed with a secret that is not the server's
Resign(token) == [token EXCEPT !.sig = HMAC(OtherSecret, token.payload)]
\* a token whose expiry was pushed back, its signature left as issued
Tamper(token) == [token EXCEPT !.payload.exp = @ + ExpiresInDays]

\* what a request can carry as its token cookie: nothing, '', a string that
\* is no token, the browser's token, or a forgery made from it
Cookies ==
  {NoCookie, EmptyCookie, MalformedCookie, jar}
    \cup (IF jar.kind = "jwt" THEN {Resign(jar), Tamper(jar)} ELSE {})

\* a request comes from the browser that is followed (it sends its cookie and
\* obeys Set-Cookie) or from another client (any cookie; the jar stays)
Clients == {"browser", "other"}
Sent(who) == IF who = "browser" THEN {jar} ELSE Cookies
Received(who, response) ==
  IF who # "browser" THEN jar
  ELSE IF response.cookie.set = "cookie" THEN response.cookie.value
  ELSE IF response.cookie.set = "delete" THEN NoCookie
  ELSE jar

Request(cookie, body, id, query) ==
  [cookie |-> cookie, body |-> body, id |-> id, query |-> query]

NoRequest == [route |-> "none"]
Answered(route, request, result) ==
  [route |-> route, request |-> request, resp |-> result.resp,
   log |-> result.log, before |-> [users |-> users, projects |-> projects]]

\* ------------------------------------------------------------ the dashboard
DebounceMs == 500
\* the step in which the page's time is counted
Quantum == DebounceMs \div 2

StatusFilters == {"all", "active"}
SearchQueries == {"", "web", "doe"}
Outcomes == {"ok", "not ok", "network error"}

\* the form of ProjectModal before anything is typed
BlankForm ==
  [title |-> "", status |-> "active", deadline |-> "", assigned_to |-> "",
   budget |-> 0, description |-> ""]
\* the rows of the table that Edit can be clicked on
TableRows ==
  {[id |-> 1, title |-> "Website", status |-> "active",
    deadline |-> "2024-12-31", assigned_to |-> "John Doe", budget |-> 100]}
FormOf(project) ==
  [title |-> project.title, status |-> project.status,
   deadline |-> project.deadline, assigned_to |-> project.assigned_to,
   budget |-> project.budget,
   description |-> IF "description" \in DOMAIN project
                     THEN project.description ELSE ""]
\* what the user types into the form
Forms ==
  {[FormOf(row) EXCEPT !.title = title] : row \in TableRows,
                                          title \in {"Website", "Shop"}}

\* useState([]): no response is displayed yet
NothingShown == [n |-> 0, status |-> "all", search |-> ""]
Fetch(n, kind, trigger, status, search, waited, change) ==
  [n |-> n, kind |-> kind, trigger |-> trigger, status |-> status,
   search |-> search, waited |-> waited, change |-> change]
Timer(id, search, status, change) ==
  [id |-> id, delay |-> IF search # "" THEN DebounceMs ELSE 0, waited |-> 0,
   status |-> status, search |-> search, change |-> change]

\* the first render and its two effects: checkAuth has sent /api/auth/me and
\* the effect on [statusFilter, searchQuery] has set its timer
Mount ==
  /\ dashboard = [projects |-> NothingShown, loading |-> TRUE,
                  isModalOpen |-> FALSE, editingProject |-> Null,
                  statusFilter |-> "all", searchQuery |-> "",
                  page |-> "dashboard"]
  /\ modal = [formData |-> BlankForm, loading |-> FALSE]
  /\ browser = [fetches |-> {Fetch(1, "me", "mount", "all", "", 0, 0)},
                timers |-> {Timer(1, "", "all", 0)},
                effectTimer |-> 1, nextFetch |-> 2, nextTimer |-> 2,
                changes |-> 0, saves |-> 0, sentFor |-> {}, failed |-> FALSE]

Mounted == dashboard.page = "dashboard"

\* fetchProjects up to its fetch: the request carries the statusFilter and
\* searchQuery of the render whose fetchProjects is called
fetchProjects(b, trigger, status, search, waited, change) ==
  [b EXCEPT !.fetches = @ \cup {Fetch(b.nextFetch, "list", trigger, status,
                                      search, waited, change)},
            !.nextFetch = @ + 1,
            !.sentFor = IF trigger = "filter" THEN @ \cup {change} ELSE @]

\* the effect that never clears the timer of the run before
DebounceEffect_noCleanup(b, status, search) ==
  [b EXCEPT !.timers = @ \cup {Timer(b.nextTimer, search, status, b.changes + 1)},
            !.effectTimer = b.nextTimer,
            !.nextTimer = @ + 1,
            !.changes = @ + 1]

\* the effect on [statusFilter, searchQuery]: the cleanup of the run before
\* (clearTimeout), then setTimeout
DebounceEffect(b, status, search) ==
  [b EXCEPT !.timers = {t \in @ : t.id # b.effectTimer}
                         \cup {Timer(b.nextTimer, search, status, b.changes + 1)},
            !.effectTimer = b.nextTimer,
            !.nextTimer = @ + 1,
            !.changes = @ + 1]

\* the effect of ProjectModal on [project, isOpen]
FormEffect(before, after, formData) ==
  IF before.editingProject = after.editingProject
       /\ before.isModalOpen = after.isModalOpen
    THEN formData
  ELSE IF after.editingProject # Null THEN FormOf(after.editingProject)
  ELSE BlankForm

\* the user changes the status filter or the search text
ChangeFilter(statuses, searches) ==
  \E status \in statuses, search \in searches :
    /\ Mounted
    /\ ~dashboard.isModalOpen
    /\ browser.changes < MaxChanges
    /\ \A t \in browser.timers : t.waited < t.delay
    /\ (status # dashboard.statusFilter) # (search # dashboard.searchQuery)
    /\ dashboard' = [dashboard EXCEPT !.statusFilter = status,
                                      !.searchQuery = search]
    /\ browser' = DebounceEffect(browser, status, search)
    /\ UNCHANGED <<modal, server>>

\* half the debounce time passes; a timer that is due runs first
Advance ==
  /\ browser.timers # {}
  /\ \A t \in browser.timers : t.waited + Quantum <= t.delay
  /\ browser' = [browser EXCEPT
                   !.timers = {[t EXCEPT !.waited = @ + Quantum] : t \in @}]
  /\ UNCHANGED <<dashboard, modal, server>>

\* the callback of setTimeout
TimerFires ==
  \E t \in browser.timers :
    /\ t.waited = t.delay
    /\ browser' = fetchProjects([browser EXCEPT !.timers = @ \ {t}], "filter",
                                t.status, t.search, t.waited, t.change)
    /\ dashboard' = [dashboard EXCEPT !.loading = TRUE]
    /\ UNCHANGED <<modal, server>>

\* checkAuth after its fetch: fetchProjects of the first render, or the login
\* page (the dashboard is unmounted, its timer cleared)
AuthChecked(outcomes) ==
  \E f \in browser.fetches, outcome \in outcomes :
    /\ f.kind = "me"
    /\ LET b == [browser EXCEPT !.fetches = @ \ {f}] IN
       IF outcome = "ok"
         THEN /\ browser' = fetchProjects(b, "auth", "all", "", 0, 0)
              /\ dashboard' = [dashboard EXCEPT !.loading = TRUE]
              /\ UNCHANGED modal
         ELSE /\ browser' = [b EXCEPT !.timers = {}]
              /\ dashboard' = [dashboard EXCEPT !.page = "login",
                                                !.isModalOpen = FALSE,
                                                !.editingProject = Null]
              /\ modal' = [formData |-> BlankForm, loading |-> FALSE]
    /\ UNCHANGED server

\* fetchProjects from the response on; when handleSave awaited it, the rest
\* of handleSave and of handleSubmit
ListResponds(outcomes) ==
  \E f \in browser.fetches, outcome \in outcomes :
    /\ f.kind = "list"
    /\ browser' = [browser EXCEPT !.fetches = @ \ {f},
                                  !.failed = @ \/ outcome # "ok"]
    /\ IF ~Mounted THEN UNCHANGED <<dashboard, modal>>
       ELSE LET listed == [dashboard EXCEPT
                             !.projects = IF outcome = "ok"
                                            THEN [n |-> f.n, status |-> f.status,
                                                  search |-> f.search]
                                            ELSE @,
                             !.loading = FALSE]
                closed == [listed EXCEPT !.isModalOpen = FALSE,
                                         !.editingProject = Null]
            IN  IF f.trigger = "save"
                  THEN /\ dashboard' = closed
                       /\ modal' = [formData |-> FormEffect(dashboard, closed,
                                                            modal.formData),
                                    loading |-> FALSE]
                  ELSE /\ dashboard' = listed
                       /\ UNCHANGED modal
    /\ UNCHANGED server

\* Add New Project
OpenNew ==
  /\ Mounted
  /\ ~dashboard.isModalOpen
  /\ dashboard' = [dashboard EXCEPT !.editingProject = Null,
                                    !.isModalOpen = TRUE]
  /\ modal' = [modal EXCEPT !.formData = FormEffect(dashboard, dashboard', @)]
  /\ UNCHANGED <<browser, server>>

handleEdit(rows) ==
  \E project \in rows :
    /\ Mounted
    /\ ~dashboard.isModalOpen
    /\ ~dashboard.loading
    /\ dashboard.projects # NothingShown
    /\ dashboard' = [dashboard EXCEPT !.editingProject = project,
                                      !.isModalOpen = TRUE]
    /\ modal' = [modal EXCEPT !.formData = FormEffect(dashboard, dashboard', @)]
    /\ UNCHANGED <<browser, server>>

\* the user fills in the form
Type(forms) ==
  \E form \in forms :
    /\ Mounted
    /\ dashboard.isModalOpen
    /\ form # modal.formData
    /\ modal' = [modal EXCEPT !.formData = form]
    /\ UNCHANGED <<dashboard, browser, server>>

\* onClose: the backdrop or the close button
Close ==
  /\ Mounted
  /\ dashboard.isModalOpen
  /\ dashboard' = [dashboard EXCEPT !.isModalOpen = FALSE,
                                    !.editingProject = Null]
  /\ modal' = [modal EXCEPT !.formData = FormEffect(dashboard, dashboard', @)]
  /\ UNCHANGED <<browser, server>>

\* handleSubmit and handleSave up to the fetch (the form's required fields
\* are filled in, the submit button is not disabled)
Submit ==
  /\ Mounted
  /\ dashboard.isModalOpen
  /\ ~modal.loading
  /\ modal.formData \in Forms
  /\ browser.saves < MaxSaves
  /\ modal' = [modal EXCEPT !.loading = TRUE]
  /\ browser' = [browser EXCEPT
                   !.fetches = @ \cup {Fetch(browser.nextFetch, "save",
                                             IF dashboard.editingProject # Null
                                               THEN "PUT" ELSE "POST",
                                             dashboard.statusFilter,
                                             dashboard.searchQuery, 0, 0)},
                   !.nextFetch = @ + 1,
                   !.saves = @ + 1]
  /\ UNCHANGED <<dashboard, server>>

\* handleSubmit without its finally
SaveFailed_staysLoading(m) == m

\* the failed save: handleSave throws, handleSubmit catches, alerts and has
\* its finally
SaveFailed(m) == [m EXCEPT !.loading = FALSE]

\* handleSave after its fetch
SaveResponds(outcomes) ==
  \E f \in browser.fetches, outcome \in outcomes :
    /\ f.kind = "save"
    /\ LET b == [browser EXCEPT !.fetches = @ \ {f}] IN
       IF outcome = "ok"
         THEN /\ browser' = fetchProjects(b, "save", f.status, f.search, 0, 0)
              /\ dashboard' = IF Mounted THEN [dashboard EXCEPT !.loading = TRUE]
                                         ELSE dashboard
              /\ UNCHANGED modal
         ELSE /\ browser' = b
              /\ modal' = IF Mounted THEN SaveFailed(modal) ELSE modal
              /\ UNCHANGED dashboard
    /\ UNCHANGED server

\* ----------------------------------------------------------------- actions
Envs == [JWT_SECRET : {Unset, "configured-secret"},
         NODE_ENV : {"development", "production"}]

InitWith(envs) ==
  /\ env \in envs
  /\ now = 0
  /\ users = {}
  /\ nextUser = 0
  /\ projects = {}
  /\ nextProject = 0
  /\ jar = NoCookie
  /\ pending = <<>>
  /\ given = {}
  /\ creator = {}
  /\ since = {}
  /\ last = NoRequest
  /\ Mount

\* what has happened to the token in the jar, once this request is answered
Since(event, happened) ==
  IF jar' # jar \/ jar.kind # "jwt" THEN {}
  ELSE IF happened THEN since \cup {event}
  ELSE since

Login(bodies, clients) ==
  \E who \in clients, body \in bodies :
    LET request == Request(jar, body, Undefined, Undefined)
        r == LoginPOST(request, now)
    IN  /\ last' = Answered("login", request, r)
        /\ jar' = Received(who, r.resp)
        /\ since' = Since("login", r.resp.status = 200)
        /\ UNCHANGED <<page, env, now, users, nextUser, projects, nextProject,
                       pending, given, creator>>

\* the rows an insert has added, with the plaintext of the request
Registered(request, table) ==
  given \cup {[id |-> u.id, password |-> request.body.password] :
                u \in table \ users}

\* register, from the request to the existence check
RegisterBegin(bodies) ==
  \E body \in bodies :
    LET request == Request(jar, body, Undefined, Undefined)
        r == RegisterCheck(request)
    IN  IF r.go
          THEN /\ Len(pending) < MaxPending
               /\ pending' = Append(pending, request)
               /\ last' = NoRequest
               /\ UNCHANGED <<page, env, now, users, nextUser, projects, nextProject,
                              jar, given, since, creator>>
          ELSE /\ last' = Answered("register", request, r)
               /\ UNCHANGED <<page, env, now, users, nextUser, projects, nextProject,
                              jar, pending, given, since, creator>>

\* register, from hashPassword to the response
RegisterEnd(salts, max, clients) ==
  \E i \in 1..Len(pending), salt \in salts, who \in clients :
    LET request == pending[i]
        r == RegisterInsert(request, salt, now)
    IN  /\ r.table # users => nextUser < max
        /\ users' = r.table
        /\ nextUser' = IF r.table # users THEN nextUser + 1 ELSE nextUser
        /\ given' = Registered(request, r.table)
        /\ pending' = SubSeq(pending, 1, i - 1) \o SubSeq(pending, i + 1, Len(pending))
        /\ last' = Answered("register", request, r)
        /\ jar' = Received(who, r.resp)
        /\ since' = Since("login", FALSE)
        /\ UNCHANGED <<page, env, now, projects, nextProject, creator>>

\* register with no other request between its check and its insert
Register(bodies, salts, max, clients) ==
  \E body \in bodies, salt \in salts, who \in clients :
    LET request == Request(jar, body, Undefined, Undefined)
        c == RegisterCheck(request)
        r == IF c.go THEN RegisterInsert(request, salt, now)
                     ELSE [resp |-> c.resp, log |-> c.log, table |-> users]
    IN  /\ r.table # users => nextUser < max
        /\ users' = r.table
        /\ nextUser' = IF r.table # users THEN nextUser + 1 ELSE nextUser
        /\ given' = Registered(request, r.table)
        /\ last' = Answered("register", request, r)
        /\ jar' = Received(who, r.resp)
        /\ since' = Since("login", FALSE)
        /\ UNCHANGED <<page, env, now, projects, nextProject, pending, creator>>

Logout ==
  \E who \in Clients, cookie \in Cookies :
    LET request == Request(cookie, Undefined, Undefined, Undefined)
        r == LogoutPOST(request)
    IN  /\ cookie \in Sent(who)
        /\ last' = Answered("logout", request, r)
        /\ jar' = Received(who, r.resp)
        /\ since' = Since("logout", cookie = jar)
        /\ UNCHANGED <<page, env, now, users, nextUser, projects, nextProject,
                       pending, given, creator>>

Me ==
  \E cookie \in Cookies :
    LET request == Request(cookie, Undefined, Undefined, Undefined)
    IN  /\ last' = Answered("me", request, MeGET(request, now))
        /\ UNCHANGED <<page, env, now, users, nextUser, projects, nextProject, jar,
                       pending, given, since, creator>>

ListProjects(queries) ==
  \E cookie \in Cookies, query \in queries, order \in Orders(projects) :
    LET request == Request(cookie, Undefined, Undefined, query)
    IN  /\ last' = Answered("GET projects", request,
                            ProjectsGET(request, order, now))
        /\ UNCHANGED <<page, env, now, users, nextUser, projects, nextProject, jar,
                       pending, given, since, creator>>

\* the rows an insert has added, with the user of the request's claim
Created(request, table) ==
  creator \cup {[project |-> p.id, user |-> request.cookie.payload.userId] :
                  p \in table \ projects}

CreateProjectUpTo(bodies, max) ==
  \E cookie \in Cookies, body \in bodies :
    LET request == Request(cookie, body, Undefined, Undefined)
        r == ProjectsPOST(request, now)
    IN  /\ r.table # projects => nextProject < max
        /\ projects' = r.table
        /\ nextProject' = IF r.table # projects THEN nextProject + 1
                                                ELSE nextProject
        /\ creator' = Created(request, r.table)
        /\ last' = Answered("POST projects", request, r)
        /\ UNCHANGED <<page, env, now, users, nextUser, jar, pending, given, since>>

CreateProject(bodies) == CreateProjectUpTo(bodies, MaxProjects)

GetProject(ids) ==
  \E cookie \in Cookies, id \in ids :
    LET request == Request(cookie, Undefined, id, Undefined)
    IN  /\ last' = Answered("GET project", request, ProjectGET(request, now))
        /\ UNCHANGED <<page, env, now, users, nextUser, projects, nextProject, jar,
                       pending, given, since, creator>>

UpdateProject(ids, bodies) ==
  \E cookie \in Cookies, id \in ids, body \in bodies :
    LET request == Request(cookie, body, id, Undefined)
        r == ProjectPUT(request, now)
    IN  /\ projects' = r.table
        /\ last' = Answered("PUT project", request, r)
        /\ UNCHANGED <<page, env, now, users, nextUser, nextProject, jar, pending,
                       given, since, creator>>

DeleteProject(ids) ==
  \E cookie \in Cookies, id \in ids :
    LET request == Request(cookie, Undefined, id, Undefined)
        r == ProjectDELETE(request, now)
    IN  /\ projects' = r.table
        /\ last' = Answered("DELETE project", request, r)
        /\ UNCHANGED <<page, env, now, users, nextUser, nextProject, jar, pending,
                       given, since, creator>>

Tick(max) ==
  /\ now < max
  /\ now' = now + 1
  /\ last' = NoRequest
  /\ UNCHANGED <<page, env, users, nextUser, projects, nextProject, jar, pending,
                 given, since, creator>>

\* account changes made in the datastore, outside the application
AdminDeleteUser ==
  \E u \in users :
    /\ users' = users \ {u}
    /\ given' = {g \in given : g.id # u.id}
    /\ last' = NoRequest
    /\ UNCHANGED <<page, env, now, nextUser, projects, nextProject, jar, pending,
                   since, creator>>

AdminChangePassword(salts) ==
  \E u \in users, p \in Passwords, salt \in salts :
    /\ ~verifyPassword(p, u.password_hash)
    /\ users' = (users \ {u})
                  \cup {[u EXCEPT !.password_hash = hashPassword(p, salt)]}
    /\ last' = NoRequest
    /\ UNCHANGED <<page, env, now, nextUser, projects, nextProject, jar, pending,
                   given, since, creator>>

\* -------------------------------------------------- the token's life (Spec)
Alice == "alice@example.com"
OneSalt == {"salt1"}
Production == [JWT_SECRET |-> "configured-secret", NODE_ENV |-> "production"]
TokenLoginBodies == {[email |-> Alice, password |-> p] : p \in Passwords}
TokenRegisterBodies ==
  {[email |-> Alice, password |-> "secret123", name |-> "Alice"]}
GateQueries == {[status |-> "active"]}
GateBody == [title |-> "Website", status |-> "active"]
GateIds == {DigitsId(1)}

Init == InitWith({Production})

Next ==
  \/ Login(TokenLoginBodies, Clients)
  \/ Register(TokenRegisterBodies, OneSalt, MaxAccounts, Clients)
  \/ Logout
  \/ Me
  \/ ListProjects(GateQueries)
  \/ Tick(MaxTime)
  \/ AdminDeleteUser
  \/ AdminChangePassword(OneSalt)

Spec == Init /\ [][Next]_vars

\* -------------------------------------- the gate of the project routes
NextGate ==
  \/ Register(TokenRegisterBodies, OneSalt, MaxAccounts, {"browser"})
  \/ Me
  \/ ListProjects(GateQueries)
  \/ CreateProject({GateBody})
  \/ GetProject(GateIds)
  \/ UpdateProject(GateIds, {GateBody})
  \/ DeleteProject(GateIds)
  \/ Tick(MaxTime)

SpecGate == Init /\ [][NextGate]_vars

\* ------------------------------------------------ registration and login
LoginBodies ==
  [email : Emails, password : Passwords]
    \cup {[email |-> "not-an-email", password |-> "secret123"],
          [email |-> Alice, password |-> LongTwin],
          [email |-> Alice, password |-> ""],
          [email |-> Alice],
          NotJson}

RegisterBodies ==
  [email : Emails, password : Passwords, name : {"Alice"}]
    \cup {[email |-> "not-an-email", password |-> "secret123", name |-> "Alice"],
          [email |-> Alice, password |-> LongPassword, name |-> "Alice"],
          [email |-> Alice, password |-> "abc", name |-> "Alice"],
          [email |-> Alice, password |-> "secret123", name |-> ""],
          NotJson}

InitLogin == InitWith({e \in Envs : e.JWT_SECRET # Unset})

NextLogin ==
  \/ Login(LoginBodies, {"other"})
  \/ RegisterBegin(RegisterBodies)
  \/ RegisterEnd(Salts, MaxUsers, {"other"})

SpecLogin == InitLogin /\ [][NextLogin]_vars

\* ------------------------------------------- two users, one workspace
Bob == "bob@example.com"
SharedRegisterBodies ==
  {[email |-> e, password |-> "secret123", name |-> "Alice"] : e \in {Alice, Bob}}
SharedQueries == {[status |-> "active"], [search |-> ""]}
SharedBodies == {[status |-> "completed"]}
SharedIds == {UuidId(n) : n \in 1..MaxProjects} \cup {DigitsId(1)}

NextShared ==
  \/ Register(SharedRegisterBodies, OneSalt, MaxUsers, {"browser"})
  \/ ListProjects(SharedQueries)
  \/ CreateProject({GateBody})
  \/ GetProject(SharedIds)
  \/ UpdateProject(SharedIds, SharedBodies)
  \/ DeleteProject(SharedIds)

SpecShared == Init /\ [][NextShared]_vars

\* --------------------------------- what the auth routes send back
AuthRegisterBodies ==
  {[email |-> Alice, password |-> "secret123", name |-> "Alice"],
   [email |-> Alice, password |-> "abc", name |-> "Alice"],
   NotJson}
AuthLoginBodies ==
  {[email |-> Alice, password |-> "secret123"],
   [email |-> Alice, password |-> "wrongpass"],
   [email |-> Bob, password |-> "secret123"],
   [email |-> Alice],
   NotJson}

NextAuth ==
  \/ RegisterBegin(AuthRegisterBodies)
  \/ RegisterEnd(OneSalt, MaxUsers, Clients)
  \/ Login(AuthLoginBodies, Clients)
  \/ Logout
  \/ Me

SpecAuth == Init /\ [][NextAuth]_vars

\* ------------------------------------------------------------ the list
ListBodies ==
  {[title |-> "Website", status |-> "active"],
   [title |-> "Alice", status |-> "completed", assigned_to |-> "John Doe"],
   [title |-> "abc", status |-> "active",
    description |-> "project description"]}
ListQueries ==
  {[search |-> ""], [status |-> "active"], [search |-> "WEB"],
   [search |-> "doe"], [search |-> "project"], [search |-> AnyOneChar],
   [status |-> "active", search |-> "web"],
   [status |-> "completed", search |-> "web"]}

NextList ==
  \/ Register(TokenRegisterBodies, OneSalt, MaxAccounts, {"browser"})
  \/ CreateProjectUpTo(ListBodies, MaxProjects + 1)
  \/ ListProjects(ListQueries)
  \/ Tick(MaxListTime)

SpecList == Init /\ [][NextList]_vars

\* ---------------------------------------------------- request bodies
InputBodies ==
  {[title |-> "Website", status |-> "active"],
   [status |-> "completed"],
   [status |-> "done"],
   [title |-> "Website", status |-> "active", deadline |-> "31/12/2024"],
   [title |-> "Website", status |-> "active", budget |-> 0],
   [title |-> "", status |-> "active"],
   [title |-> "Website", status |-> "active", assigned_to |-> ""],
   [name |-> "Website"],
   NotJson}
InputIds == {DigitsId(1), UuidId(1)}

NextInput ==
  \/ Register(AuthRegisterBodies, OneSalt, MaxAccounts, {"browser"})
  \/ Login(AuthLoginBodies, {"browser"})
  \/ CreateProject(InputBodies)
  \/ UpdateProject(InputIds, InputBodies)

SpecInput == Init /\ [][NextInput]_vars

\* ------------------------------------------------------- the dashboard page
\* the list and its filters
NextFilter ==
  \/ AuthChecked(Outcomes)
  \/ ChangeFilter(StatusFilters, SearchQueries)
  \/ Advance
  \/ TimerFires
  \/ ListResponds(Outcomes)

SpecFilter == Init /\ [][NextFilter]_vars

\* the modal and its save
NextSave ==
  \/ AuthChecked(Outcomes)
  \/ TimerFires
  \/ ListResponds(Outcomes)
  \/ OpenNew
  \/ handleEdit(TableRows)
  \/ Type(Forms)
  \/ Close
  \/ Submit
  \/ SaveResponds(Outcomes)

\* every fetch is settled in the end (answered, or failed) and a timer that
\* is due runs
SpecSave ==
  /\ Init
  /\ [][NextSave]_vars
  /\ WF_vars(AuthChecked(Outcomes))
  /\ WF_vars(TimerFires)
  /\ WF_vars(ListResponds(Outcomes))
  /\ WF_vars(SaveResponds(Outcomes))

\* ======================================================= the properties
\* A token is valid iff the server's secret signed it and it has not expired.
SignedByServer(c) == c.kind = "jwt" /\ c.sig = HMAC(JWT_SECRET, c.payload)
ValidAt(c, t) == SignedByServer(c) /\ t < c.payload.exp

ProjectRoutes ==
  {"GET projects", "POST projects", "GET project", "PUT project",
   "DELETE project"}
DbOps ==
  {"select users", "insert users", "select projects", "insert projects",
   "update projects", "delete projects"}
NoDbOp(log) == \A i \in 1..Len(log) : log[i] \notin DbOps

\* C1: in each of the five project handlers requireAuth is the first step; a
\* datastore call is made only after it has succeeded, and a request whose
\* requireAuth fails makes no datastore call and leaves projects as it was.
C1_GateFirst ==
  last.route \in ProjectRoutes =>
    /\ Len(last.log) >= 1
    /\ last.log[1] = "requireAuth"
    /\ \A i \in 1..Len(last.log) :
         last.log[i] \in DbOps =>
           /\ ValidAt(last.request.cookie, now)
           /\ \E j \in 1..(i - 1) : last.log[j] = "requireAuth"
    /\ ~ValidAt(last.request.cookie, now) =>
         /\ NoDbOp(last.log)
         /\ projects = last.before.projects

\* a DELETE carrying a token that is no longer valid, the table not empty
C1_Witness ==
  /\ last.route = "DELETE project"
  /\ last.request.cookie.kind = "jwt"
  /\ ~ValidAt(last.request.cookie, now)
  /\ projects # {}
  /\ last.log = <<"requireAuth", "verifyToken">>

\* C2: a protected handler answers every unauthenticated request with the
\* same 401 {error: 'Unauthorized'}, whatever is wrong with the cookie
\* (missing, empty, malformed, signed with another secret, expired).
C2_OneUnauthorized ==
  (last.route \in ProjectRoutes \cup {"me"}
     /\ ~ValidAt(last.request.cookie, now))
    => last.resp = Json(401, [error |-> "Unauthorized"])

\* an expired token of the server on the list route
C2_Witness ==
  /\ last.route = "GET projects"
  /\ SignedByServer(last.request.cookie)
  /\ now >= last.request.cookie.payload.exp
  /\ last.resp.status = 401

SevenDays == 7
CookieOnly(c) == Request(c, Undefined, Undefined, Undefined)
IdentityClaims ==
  {[userId |-> UUID(n), email |-> e] : n \in 1..MaxAccounts, e \in Emails}
Issued == last.route \in {"login", "register"} /\ last.resp.status = 200

\* C3: verifyToken accepts a token iff the configured secret signed it and
\* the time is before its expiration; the users table, logins and logouts
\* and other requests have no part in it.
C3_ValidIff ==
  /\ \A c \in Cookies \ {NoCookie} :
       (verifyToken(c, now) # Null) <=> ValidAt(c, now)
  /\ (last.route = "me" /\ ~Falsy(last.request.cookie)) =>
       ((last.resp.status = 200) <=> ValidAt(last.request.cookie, now))

\* a token accepted although its user's row is gone
C3_Witness ==
  /\ last.route = "me"
  /\ last.resp.status = 200
  /\ last.log = <<"verifyToken">>
  /\ users = {}

\* C4: verifyToken never raises: for a bad signature, a malformed string or
\* an expired token it returns null, and its callers answer 401, not 500.
C4_NeverRaises ==
  /\ \A c \in Cookies \ {NoCookie} :
       LET r == verifyToken(c, now)
       IN  /\ ~IsRaise(r)
           /\ (c.kind # "jwt" \/ ~SignedByServer(c) \/ now >= c.payload.exp)
                => r = Null
  /\ (last.route \in {"me", "GET projects"}
        /\ ~ValidAt(last.request.cookie, now)) => last.resp.status = 401

\* a token signed with another secret, handed to the verifier
C4_Witness ==
  /\ last.route = "me"
  /\ jar.kind = "jwt"
  /\ last.request.cookie = Resign(jar)
  /\ last.log = <<"verifyToken">>
  /\ last.resp.status = 401

C6_Lifetime ==
  /\ [](Issued =>
          /\ last.resp.body.token.payload.iat = now
          /\ last.resp.body.token.payload.exp = now + SevenDays)
  /\ [](jar.kind = "jwt" =>
          ((verifyToken(jar, now) # Null) <=> now < jar.payload.iat + SevenDays))
  /\ [][(jar.kind = "jwt" /\ jar' = jar /\ verifyToken(jar, now) = Null)
          => (verifyToken(jar, now) = Null)']_vars

\* the browser's token, presented after its expiration
C6_Witness ==
  /\ jar.kind = "jwt"
  /\ now >= jar.payload.exp
  /\ last.route = "me"
  /\ last.request.cookie = jar
  /\ last.resp.status = 401

\* C7: there is no revocation: an unexpired token that the server issued
\* passes requireAuth and yields the claim it was issued with, whatever
\* logouts, later logins and changes of the user's row have happened since.
C7_NoRevocation ==
  /\ (jar.kind = "jwt" /\ now < jar.payload.exp) =>
       LET a == requireAuth(CookieOnly(jar), now).val
       IN  /\ ~IsRaise(a)
           /\ a.userId = jar.payload.userId
           /\ a.email = jar.payload.email
  /\ (last.route = "GET projects" /\ last.request.cookie = jar
        /\ jar.kind = "jwt" /\ now < jar.payload.exp) => last.resp.status = 200

\* the token passes after a logout that carried it, a later login and the
\* deletion of its user
C7_Witness ==
  /\ last.route = "GET projects"
  /\ last.request.cookie = jar
  /\ last.resp.status = 200
  /\ since = {"logout", "login"}
  /\ ~\E u \in users : u.id = jar.payload.userId

WellFormedLogin ==
  /\ last.route = "login"
  /\ IsObject(last.request.body)
  /\ ~IsRaise(loginSchema(last.request.body))
RegistrationPasswords(email) ==
  {g.password : g \in {h \in given : \E u \in UsersByEmail(email) : u.id = h.id}}
InvalidCredentials == Json(401, [error |-> "Invalid credentials"])

\* C9: a well-formed login request gets the same answer (401, body
\* {error: 'Invalid credentials'}, no cookie) when its email is not
\* registered as when the email is registered and the password is not the
\* one the account was registered with.
C9_Indistinguishable ==
  (WellFormedLogin
     /\ last.request.body.password
          \notin RegistrationPasswords(last.request.body.email))
    => last.resp = InvalidCredentials

\* C10: for a registered email, login answers 200 with a token iff the
\* password sent equals the password the account was registered with, and
\* 401 otherwise.
C10_LoginIffPassword ==
  (WellFormedLogin /\ UsersByEmail(last.request.body.email) # {}) =>
    IF last.request.body.password
         \in RegistrationPasswords(last.request.body.email)
      THEN /\ last.resp.status = 200
           /\ "token" \in DOMAIN last.resp.body
      ELSE last.resp.status = 401

InLog(op) ==
  "log" \in DOMAIN last /\ \E i \in 1..Len(last.log) : last.log[i] = op
RowsBefore(email) == {u \in last.before.users : u.email = email}

\* C11: the token of a successful registration or login, carried as the
\* token cookie, makes getCurrentUser return a claim whose userId and email
\* are the id and email of that user's stored row.
C11_TokenNamesUser ==
  Issued =>
    LET g == getCurrentUser(CookieOnly(last.resp.body.token), now).val
        rows == UsersByEmail(last.request.body.email)
    IN  /\ g # Null
        /\ Cardinality(rows) = 1
        /\ \A u \in rows : /\ g.userId = u.id
                           /\ g.email = u.email
                           /\ last.resp.body.user.id = u.id

\* a login of the second of two stored users
C11_Witness ==
  /\ last.route = "login"
  /\ last.resp.status = 200
  /\ Cardinality(users) = 2
  /\ last.resp.body.token.payload.userId = UUID(2)
  /\ \E u \in users : u.id = UUID(2) /\ u.email = last.request.body.email

\* C12: every successful login and registration sets a cookie named token
\* whose value is the token of the response body, HttpOnly, SameSite=Lax,
\* max-age 604800 seconds (the 7 days of the token), and Secure exactly when
\* NODE_ENV is production.
C12_TokenCookie ==
  Issued =>
    LET c == last.resp.cookie
        token == last.resp.body.token
    IN  /\ c.set = "cookie"
        /\ c.name = "token"
        /\ c.value = token
        /\ c.httpOnly = TRUE
        /\ c.sameSite = "lax"
        /\ c.maxAge = 604800
        /\ c.maxAge = (token.payload.exp - token.payload.iat) * 24 * 60 * 60
        /\ c.secure = (env.NODE_ENV = "production")

\* a registration answered outside production: the cookie is not Secure
C12_Witness ==
  /\ last.route = "register"
  /\ last.resp.status = 200
  /\ env.NODE_ENV = "development"
  /\ last.resp.cookie.secure = FALSE
  /\ last.resp.cookie.value = last.resp.body.token

\* C13: under every interleaving of registrations of one email there is at
\* most one user row with that email; a registration succeeds only by
\* inserting the first row of its email, so at most one of them gets a token;
\* a request that passed the existence check after which another request's
\* row was committed is stopped by the insert, which leaves the table alone.
C13_OneWinner ==
  /\ \A e \in Emails : Cardinality(UsersByEmail(e)) <= 1
  /\ (last.route = "register" /\ last.resp.status = 200) =>
       /\ RowsBefore(last.request.body.email) = {}
       /\ \E u \in users \ last.before.users :
            /\ u.id = last.resp.body.user.id
            /\ u.email = last.request.body.email
  /\ (last.route = "register" /\ InLog("insert users")
        /\ RowsBefore(last.request.body.email) # {}) =>
       /\ last.resp.status # 200
       /\ "token" \notin DOMAIN last.resp.body
       /\ last.resp.cookie = NoSetCookie
       /\ users = last.before.users

\* two registrations of one email passed the check; the second insert lost
C13_Witness ==
  /\ last.route = "register"
  /\ InLog("insert users")
  /\ last.resp.status # 200
  /\ Cardinality(UsersByEmail(last.request.body.email)) = 1
  /\ users = last.before.users

WellFormedRegister ==
  /\ last.route = "register"
  /\ IsObject(last.request.body)
  /\ ~IsRaise(registerSchema(last.request.body))

\* C14: a registration for an email that a stored user already has, also one
\* whose row was committed between this request's existence check and its
\* insert, is answered 400 'User already exists' without token or cookie and
\* inserts no row.
C14_AlreadyExists ==
  (WellFormedRegister /\ RowsBefore(last.request.body.email) # {}) =>
    /\ last.resp = Json(400, [error |-> "User already exists"])
    /\ users = last.before.users

\* C15: requireAuth and getCurrentUser keep no state: a step that leaves the
\* clock alone (any other request answered, any change of the tables) leaves
\* their result for every request as it was, and a request that only calls
\* getCurrentUser (GET /api/auth/me) changes nothing.
C15_NoSharedState ==
  /\ [][now' = now =>
          \A c \in Cookies :
            /\ requireAuth(CookieOnly(c), now)
                 = (requireAuth(CookieOnly(c), now))'
            /\ getCurrentUser(CookieOnly(c), now)
                 = (getCurrentUser(CookieOnly(c), now))']_vars
  /\ [][last'.route = "me" =>
          UNCHANGED <<env, now, users, nextUser, projects, nextProject, jar,
                      pending>>]_vars

\* the token still passes right after a logout request that carried it
C15_Witness ==
  /\ last.route = "logout"
  /\ last.request.cookie = jar
  /\ ValidAt(jar, now)
  /\ requireAuth(CookieOnly(jar), now).val = jar.payload
  /\ "login" \notin since

Authenticated ==
  "request" \in DOMAIN last /\ ValidAt(last.request.cookie, now)
Caller == last.request.cookie.payload.userId
\* the projects stored when the request arrived that another user created
OthersProjects ==
  {p \in last.before.projects :
     \E k \in creator : k.project = p.id /\ k.user # Caller}
\* the one of them whose id, as the API returned it, is the request's id
Addressed == {p \in OthersProjects : last.request.id = UuidId(p.id.uuid)}
Listed(p) ==
  \E i \in 1..Len(last.resp.body.list) : last.resp.body.list[i] = formatProject(p)
QueryMatches(p) ==
  Matches(p,
          IF Given(last.request.query, "status")
            THEN last.request.query.status ELSE "",
          IF Given(last.request.query, "search")
            THEN last.request.query.search ELSE "")

\* C16: one shared workspace: a project that user A created is returned to
\* another authenticated user B by the list and by GET on its id, and B's PUT
\* and DELETE on its id update and delete it.
C16_SharedWorkspace ==
  Authenticated =>
    /\ last.route = "GET projects" =>
         /\ last.resp.status = 200
         /\ \A p \in OthersProjects : QueryMatches(p) => Listed(p)
    /\ last.route = "GET project" =>
         \A p \in Addressed : last.resp = Json(200, formatProject(p))
    /\ last.route = "PUT project" =>
         \A p \in Addressed :
           /\ last.resp.status = 200
           /\ \E q \in projects :
                /\ q.id = p.id
                /\ \A c \in DOMAIN last.request.body : q[c] = last.request.body[c]
    /\ last.route = "DELETE project" =>
         \A p \in Addressed :
           /\ last.resp.status = 200
           /\ ~\E q \in projects : q.id = p.id

AuthRoutes == {"login", "register", "me"}
\* the plaintexts of the stored users and of the request just answered
SecretTexts ==
  {g.password : g \in given}
    \cup (IF "password" \in DOMAIN last.request.body
            THEN {last.request.body.password} ELSE {})
SecretHashes == {u.password_hash : u \in users \cup last.before.users}
TokenClean(token) ==
  /\ DOMAIN token.payload = {"userId", "email", "iat", "exp"}
  /\ token.payload.email \notin SecretTexts
  /\ token.payload.userId \notin SecretHashes

\* C17: no response of register, login or /api/auth/me, whatever its status,
\* carries a password hash or a plaintext password: not in a field of the
\* body, not in the cookie, not in the claim of the token.
C17_NoSecretOut ==
  last.route \in AuthRoutes =>
    LET b == last.resp.body
        c == last.resp.cookie
    IN  /\ DOMAIN b \subseteq {"error", "details", "message", "user", "token"}
        /\ \A f \in DOMAIN b \cap {"error", "details", "message"} :
             b[f] \notin SecretTexts
        /\ "user" \in DOMAIN b =>
             /\ \/ DOMAIN b.user = {"id", "email", "name"}
                \/ DOMAIN b.user = {"userId", "email", "iat", "exp"}
             /\ b.user \notin SecretHashes
             /\ \A f \in DOMAIN b.user \cap {"email", "name"} :
                  b.user[f] \notin SecretTexts
        /\ "token" \in DOMAIN b => TokenClean(b.token)
        /\ c.set = "cookie" =>
             /\ DOMAIN c = {"set", "name", "value", "httpOnly", "secure",
                            "sameSite", "maxAge"}
             /\ TokenClean(c.value)

\* a login that read the user's row with its hash and was answered
C17_Witness ==
  /\ last.route = "login"
  /\ InLog("verifyPassword")
  /\ last.resp.status = 200
  /\ SecretHashes # {}
  /\ last.request.body.password \in SecretTexts
  /\ Cardinality(users) = 1

\* C18: logout asks for no authentication: with no cookie, a valid token, an
\* invalid or an expired one it answers 200 'Logged out successfully',
\* deletes the token cookie, and makes no call to the gate or the datastore.
C18_LogoutAlways ==
  last.route = "logout" =>
    /\ last.resp.status = 200
    /\ last.resp.body = [message |-> "Logged out successfully"]
    /\ last.resp.cookie = DeleteCookie("token")
    /\ last.log = <<>>
    /\ users = last.before.users
    /\ projects = last.before.projects

\* a logout that carried an expired token
C18_Witness ==
  /\ last.route = "logout"
  /\ last.request.cookie = jar
  /\ SignedByServer(jar)
  /\ now >= jar.payload.exp
  /\ last.resp.status = 200

\* C19: a successful registration (the request's row was inserted) is
\* answered 201 Created with a body of user {id, email, name} and token.
C19_RegisterCreated ==
  (last.route = "register" /\ users # last.before.users) =>
    /\ last.resp.status = 201
    /\ DOMAIN last.resp.body = {"user", "token"}
    /\ DOMAIN last.resp.body.user = {"id", "email", "name"}

RequiredFields == {"title", "status", "deadline", "assigned_to", "budget"}

\* C20: an authenticated POST /api/projects that omits title, status,
\* deadline, assigned_to or budget is rejected and creates no project; one
\* that carries all five creates a project and is answered 201 with it.
C20_RequiredFields ==
  (last.route = "POST projects" /\ Authenticated
     /\ IsObject(last.request.body)
     /\ ~IsRaise(projectSchema(last.request.body))) =>
    IF RequiredFields \subseteq DOMAIN last.request.body
      THEN /\ last.resp.status = 201
           /\ \E p \in projects \ last.before.projects :
                last.resp.body = formatProject(p)
      ELSE /\ last.resp.status \in {400, 500}
           /\ projects = last.before.projects

\* an authenticated PUT whose body passes the schema and names a field
ValidPut ==
  /\ last.route = "PUT project"
  /\ Authenticated
  /\ IsObject(last.request.body)
  /\ ~IsRaise(projectSchema(last.request.body))
  /\ DOMAIN last.request.body \cap ProjectFields # {}
\* the id of project p as the API returns it, used as the path segment
OwnId(p) == UuidId(p.id.uuid)

\* C21: PUT is a partial update: on the project the id addresses, the fields
\* of the body take the body's values and every other field keeps its value;
\* no other project changes.
C21_PartialUpdate ==
  ValidPut =>
    \A p \in last.before.projects :
      IF last.request.id = OwnId(p)
        THEN \E q \in projects :
               /\ q.id = p.id
               /\ \A c \in DOMAIN last.request.body \cap ProjectFields :
                    c \in DOMAIN q /\ q[c] = last.request.body[c]
               /\ \A c \in DOMAIN p \ (DOMAIN last.request.body
                                         \cup {"updated_at"}) :
                    c \in DOMAIN q /\ q[c] = p[c]
        ELSE p \in projects

PerIdRoutes == {"GET project", "PUT project", "DELETE project"}
PerIdRequest ==
  /\ last.route \in PerIdRoutes
  /\ Authenticated
  /\ last.route = "PUT project" => ValidPut
MatchesNoProject ==
  \A p \in last.before.projects :
    last.request.id \notin {OwnId(p), DigitsId(p.id.uuid)}

\* C22: an authenticated GET, PUT or DELETE whose id is well formed (a number
\* for the handlers, a UUID for the schema) and is the id of no stored
\* project is answered 404 'Project not found' and leaves the table alone.
C22_NotFound ==
  (PerIdRequest /\ MatchesNoProject) =>
    /\ last.resp = Json(404, [error |-> "Project not found"])
    /\ projects = last.before.projects

\* C23: every stored project is reachable by its own id: an authenticated
\* GET, PUT or DELETE with the id that POST and the list returned for it
\* is not answered 400 'Invalid project id' or 404 and operates on it.
C23_ReachableById ==
  PerIdRequest =>
    \A p \in last.before.projects :
      last.request.id = OwnId(p) =>
        /\ last.resp.status \notin {400, 404}
        /\ last.route = "GET project" =>
             last.resp = Json(200, formatProject(p))
        /\ last.route = "PUT project" =>
             /\ last.resp.status = 200
             /\ last.resp.body.id = p.id
        /\ last.route = "DELETE project" =>
             /\ last.resp = Json(200, [message |-> "Project deleted successfully"])
             /\ ~\E q \in projects : q.id = p.id

QStatus ==
  IF Given(last.request.query, "status") THEN last.request.query.status ELSE ""
QSearch ==
  IF Given(last.request.query, "search") THEN last.request.query.search ELSE ""
\* text contains the search text, letter case aside
Contains(text, search) == Lower(search) \in Substrings(Lower(text))
Wanted(p) ==
  /\ QStatus # "" => p.status = QStatus
  /\ QSearch # "" =>
       \E c \in {"title", "assigned_to", "description"} :
         c \in DOMAIN p /\ Contains(p[c], QSearch)

\* C24: the list returns exactly the stored projects whose status is the
\* status parameter (when given) and whose title, assigned_to or description
\* contains the search text, letter case aside (when given), newest first;
\* with neither parameter it returns all projects.
C24_ListFilter ==
  (last.route = "GET projects" /\ Authenticated) =>
    LET list == last.resp.body.list
        wanted == {p \in projects : Wanted(p)}
    IN  /\ last.resp.status = 200
        /\ Len(list) = Cardinality(wanted)
        /\ \A p \in wanted : \E i \in 1..Len(list) : list[i] = formatProject(p)
        /\ \A i, j \in 1..Len(list) :
             i < j => list[i].created_at >= list[j].created_at

\* the body of the request is not one the schema accepts
Violates(schema(_)) ==
  ~IsObject(last.request.body) \/ IsRaise(schema(last.request.body))

\* C25: an authenticated POST /api/projects or PUT /api/projects/[id] whose
\* body violates the schema is answered 400 'Invalid input' and leaves the
\* projects as they were; a register or login request with an invalid body is
\* answered 400 and leaves the users as they were.
C25_InvalidInput ==
  /\ (/\ last.route \in {"POST projects", "PUT project"}
      /\ Authenticated
      /\ Violates(projectSchema)) =>
       /\ last.resp.status = 400
       /\ last.resp.body.error = "Invalid input"
       /\ projects = last.before.projects
  /\ (last.route = "login" /\ Violates(loginSchema)) =>
       last.resp.status = 400 /\ users = last.before.users
  /\ (last.route = "register" /\ Violates(registerSchema)) =>
       last.resp.status = 400 /\ users = last.before.users

AuthenticatedPut == last.route = "PUT project" /\ Authenticated
NumericId == last.request.id.path = "digits"
JsonBody == IsObject(last.request.body)
SchemaFails == JsonBody /\ IsRaise(projectSchema(last.request.body))
NothingToUpdate ==
  /\ JsonBody
  /\ ~SchemaFails
  /\ DOMAIN last.request.body \cap ProjectFields = {}

\* C26: PUT /api/projects/[id] checks authentication (401), then that the id
\* is numeric (400 'Invalid project id'), then the body against the schema
\* (400 'Invalid input'), then that there is something to update (400 'No
\* fields to update'), and only then turns to the datastore (404, 500 or
\* 200): a request with several defects gets the answer of the first check it
\* fails, and the datastore is operated only if all four checks pass.
C26_CheckOrder ==
  last.route = "PUT project" =>
    /\ IF ~Authenticated THEN last.resp = Unauthorized
       ELSE IF ~NumericId
         THEN last.resp = Json(400, [error |-> "Invalid project id"])
       ELSE IF SchemaFails
         THEN last.resp.status = 400 /\ last.resp.body.error = "Invalid input"
       ELSE IF NothingToUpdate
         THEN last.resp = Json(400, [error |-> "No fields to update"])
       ELSE JsonBody =>
              /\ InLog("update projects")
              /\ last.resp.status \in {404, 500, 200}
    /\ (InLog("update projects") \/ projects # last.before.projects) =>
         /\ Authenticated
         /\ NumericId
         /\ JsonBody /\ ~SchemaFails
         /\ ~NothingToUpdate
\* a request failing the id check and the schema check is told about the id
C26_Witness ==
  /\ AuthenticatedPut
  /\ ~NumericId
  /\ SchemaFails
  /\ last.resp = Json(400, [error |-> "Invalid project id"])

\* the tokens a response carries, in its body or in its Set-Cookie
TokensOut ==
  (IF "token" \in DOMAIN last.resp.body THEN {last.resp.body.token} ELSE {})
    \cup (IF last.resp.cookie.set = "cookie" THEN {last.resp.cookie.value}
                                             ELSE {})
Inserted == users \ last.before.users
Verified(u) ==
  /\ u.email = last.request.body.email
  /\ bcrypt_compare(last.request.body.password, u.password_hash)

\* C27: a response carries a token with the claim of user u only if it
\* answers a register request that inserted u or a login request whose
\* password verified against the stored hash of u; a login or register
\* response with a 4xx or 5xx status carries no token and sets no cookie.
C27_TokenOnlyFor ==
  "resp" \in DOMAIN last =>
    /\ \A token \in TokensOut :
         \/ /\ last.route = "register"
            /\ \E u \in Inserted : /\ token.payload.userId = u.id
                                   /\ token.payload.email = u.email
         \/ /\ last.route = "login"
            /\ \E u \in last.before.users : /\ token.payload.userId = u.id
                                            /\ token.payload.email = u.email
                                            /\ Verified(u)
    /\ (last.route \in {"login", "register"} /\ last.resp.status >= 400) =>
         TokensOut = {} /\ last.resp.cookie = NoSetCookie
\* a login answered with a token while two users are stored
C27_Witness ==
  /\ last.route = "login"
  /\ TokensOut # {}
  /\ Cardinality(users) = 2

\* the user has stopped and nothing is outstanding: no timer is set, no
\* request is on its way, and every list request was answered ok
Settled ==
  /\ Mounted
  /\ browser.timers = {}
  /\ browser.fetches = {}
  /\ ~browser.failed

\* C28: once the user has stopped changing the status filter and the search
\* text and every outstanding list request has completed, the displayed list
\* is the response to the request made with the final filter and search
\* values; and the response to an earlier request never replaces the
\* response to a later one.
C28_LastRequestWins ==
  /\ [](Settled => /\ dashboard.projects.status = dashboard.statusFilter
                   /\ dashboard.projects.search = dashboard.searchQuery)
  /\ [][dashboard'.projects.n >= dashboard.projects.n]_vars

\* the list requests that a step sends for the filter
FilterSent ==
  {f \in browser'.fetches \ browser.fetches : f.trigger = "filter"}
FilterChanged ==
  \/ dashboard'.statusFilter # dashboard.statusFilter
  \/ dashboard'.searchQuery # dashboard.searchQuery
DelayFor(search) == IF search # "" THEN DebounceMs ELSE 0

\* C29: a change of the search text or of the status filter sets one timer
\* for a list request, 500 ms ahead while the search text is non-empty and
\* without delay when it is empty, and cancels the timer of the change
\* before; so every request sent for the filter was scheduled by the latest
\* change, carries the current values, is the only one sent for that change
\* and was sent after exactly that delay.
C29_Debounce ==
  [][/\ FilterChanged =>
          browser'.timers =
            {[id |-> browser.nextTimer,
              delay |-> DelayFor(dashboard'.searchQuery), waited |-> 0,
              status |-> dashboard'.statusFilter,
              search |-> dashboard'.searchQuery,
              change |-> browser'.changes]}
     /\ \A f \in FilterSent :
          /\ f.status = dashboard.statusFilter
          /\ f.search = dashboard.searchQuery
          /\ f.change = browser.changes
          /\ f.change \notin browser.sentFor
          /\ f.waited = DelayFor(f.search)]_vars
\* a burst of two changes, the search text non-empty: the request of the
\* second is on its way after 500 ms, none was sent for the first
C29_Witness ==
  \E f \in browser.fetches :
    /\ f.trigger = "filter"
    /\ f.search # ""
    /\ f.change = 2
    /\ browser.changes = 2
    /\ f.waited = DebounceMs
    /\ browser.sentFor = {0, 2}

\* the step that settles a save request, and the one that settles the list
\* request that handleSave awaits
SaveSettled(f) ==
  f \in browser.fetches /\ f \notin browser'.fetches /\ f.kind = "save"
Reloading ==
  \E g \in browser'.fetches \ browser.fetches : g.trigger = "save"
Reloaded(f) ==
  /\ f \in browser.fetches /\ f \notin browser'.fetches
  /\ f.kind = "list" /\ f.trigger = "save"

\* C30: when the create or update request of a save fails (not ok, or a
\* network error) the modal stays as it is: open or not, its form data and
\* the editing target unchanged; when it succeeds the modal is closed and
\* editingProject is null once handleSave is through; and the loading flag
\* of the modal, true from the submit on, is false again in the end.
C30_Save ==
  /\ [][\A f \in browser.fetches :
          /\ (Mounted /\ SaveSettled(f) /\ ~Reloading) =>
               /\ dashboard'.isModalOpen = dashboard.isModalOpen
               /\ dashboard'.editingProject = dashboard.editingProject
               /\ modal'.formData = modal.formData
               /\ ~modal'.loading
          /\ (Mounted /\ Reloaded(f)) =>
               /\ ~dashboard'.isModalOpen
               /\ dashboard'.editingProject = Null
               /\ ~modal'.loading]_vars
  /\ (modal.loading ~> ~modal.loading)
\* an update that failed: the modal is open on the project, not loading
C30_Witness ==
  /\ Mounted
  /\ browser.saves = 1
  /\ browser.fetches = {}
  /\ browser.nextFetch = 5
  /\ dashboard.isModalOpen
  /\ dashboard.editingProject \in TableRows
  /\ modal.formData.title = "Shop"
  /\ ~modal.loading
====
